---- MODULE Spec2Model ----
(***************************************************************************)
(* Model of the imagen-printer tool: the ImageProcessor (grid partition of *)
(* a loaded image), the PDFGenerator (page composition, one page per tile) *)
(* and the App that drives both from file, pattern, dpi and export events. *)
(***************************************************************************)
EXTENDS Integers, Sequences, FiniteSets, TLC

VARIABLES
  originalImage,   \* ImageProcessor.originalImage: NoImage or [file, width, height]
  imageParts,      \* ImageProcessor.imageParts: sequence of tile descriptors
  ret,             \* outcome of the last direct ImageProcessor call
  firstCall,       \* the first divideImage call that returned since the image was set
  pond,            \* the file held by the uploader's FilePond: NoFile or a file id
  currentFile,     \* App.currentFile: NoFile or a file id
  currentPattern,  \* App.currentPattern
  currentDpi,      \* App.currentDpi
  exportEnabled,   \* ~ App.elements.exportButton.disabled
  errorMessage,    \* App.elements.errorMessage.textContent ("" before any error)
  loading,         \* files whose loadImage promise is still pending
  events,          \* user events so far: files added and removed, selects changed, clicks
  gens             \* generatePDF calls: one process record per call

vars == <<originalImage, imageParts, ret, firstCall, pond, currentFile, currentPattern, currentDpi,
          exportEnabled, errorMessage, loading, events, gens>>

ipVars == <<originalImage, imageParts, ret, firstCall>>
appVars == <<pond, currentFile, currentPattern, currentDpi, exportEnabled, errorMessage,
             loading, events>>

-----------------------------------------------------------------------------
(* Bounds of the model *)

\* source images are MaxDim x MaxDim pixels at most, plus the 1000 x 700 example
MaxDim == 3
\* user events in one run: files added and removed, selects changed, export clicks
MaxEvents == 4

Widths == (1..MaxDim) \cup {1000}
Heights == (1..MaxDim) \cup {700}
\* the files of a run: file 1 decodes to a 1000 x 700 image, file 2 to a 1 x 3 image,
\* file 3 has a type outside SUPPORTED_FORMATS, file 4 is one byte over MAX_FILE_SIZE
Files == {1, 2, 3, 4}
AnyFile == CHOOSE f \in Files : TRUE

NoImage == [file |-> 0, width |-> 0, height |-> 0]
NoFile == 0
Null == "null"

-----------------------------------------------------------------------------
(* utils/constants.js *)

PAPER_SIZES ==
  [A4 |-> [name |-> "A4", width |-> 210, height |-> 297, widthPx |-> 2480, heightPx |-> 3508],
   A3 |-> [name |-> "A3", width |-> 297, height |-> 420, widthPx |-> 3508, heightPx |-> 4961]]

PaperIds == DOMAIN PAPER_SIZES

DPI_OPTIONS == {150, 300, 600}

\* landscape is "true", "false" or "undefined" (the key is absent)
DIVISION_PATTERNS ==
  [A4_2x1    |-> [rows |-> 2, cols |-> 1, paperSize |-> "A4", landscape |-> "undefined"],
   A4_1x2    |-> [rows |-> 1, cols |-> 2, paperSize |-> "A4", landscape |-> "undefined"],
   A4_2x2    |-> [rows |-> 2, cols |-> 2, paperSize |-> "A4", landscape |-> "false"],
   A4_2x2_H  |-> [rows |-> 2, cols |-> 2, paperSize |-> "A4", landscape |-> "true"],
   A3_SINGLE |-> [rows |-> 1, cols |-> 1, paperSize |-> "A3", landscape |-> "undefined"],
   A3_2x1    |-> [rows |-> 2, cols |-> 1, paperSize |-> "A3", landscape |-> "undefined"],
   A3_1x2    |-> [rows |-> 1, cols |-> 2, paperSize |-> "A3", landscape |-> "undefined"],
   A3_2x2    |-> [rows |-> 2, cols |-> 2, paperSize |-> "A3", landscape |-> "false"],
   A3_2x2_H  |-> [rows |-> 2, cols |-> 2, paperSize |-> "A3", landscape |-> "true"]]

TablePatternIds == DOMAIN DIVISION_PATTERNS

\* the ids a caller may pass: every id of the static table and one id of no table
PatternIds == TablePatternIds \cup {"UNKNOWN"}

SUPPORTED_FORMATS == {"image/jpeg", "image/jpg", "image/png", "image/webp", "image/bmp"}
MAX_FILE_SIZE == 50 * 1024 * 1024

DefaultPattern == "A4_2x2"
DefaultDpi == 300

\* Math.round((mm * dpi) / 25.4), in integers: floor((10*mm*dpi + 127) / 254)
convertMmToPx(mm, dpi) == (10 * mm * dpi + 127) \div 254

-----------------------------------------------------------------------------
(* modules/imageProcessor.js *)

\* the partitioner's own pattern table (it does not read DIVISION_PATTERNS)
GridPatterns ==
  [A4_2x1    |-> [rows |-> 2, cols |-> 1, paperSize |-> "A4"],
   A4_1x2    |-> [rows |-> 1, cols |-> 2, paperSize |-> "A4"],
   A4_2x2    |-> [rows |-> 2, cols |-> 2, paperSize |-> "A4"],
   A3_SINGLE |-> [rows |-> 1, cols |-> 1, paperSize |-> "A3"],
   A3_2x1    |-> [rows |-> 2, cols |-> 1, paperSize |-> "A3"],
   A3_1x2    |-> [rows |-> 1, cols |-> 2, paperSize |-> "A3"],
   A3_2x2    |-> [rows |-> 2, cols |-> 2, paperSize |-> "A3"]]

\* patterns[pattern] || patterns['A4_2x2']
getGridDimensions(pattern) ==
  IF pattern \in DOMAIN GridPatterns THEN GridPatterns[pattern]
  ELSE GridPatterns["A4_2x2"]

\* partNumber: row * cols + col + 1
partNumberOf(row, col, rows, cols) == row * cols + col + 1

partSizeCeil(size, count) == (size + count - 1) \div count

\* Math.floor(originalWidth / cols), Math.floor(originalHeight / rows)
partSize(size, count) == size \div count

\* One tile: the region drawn from the source (dataURL stands for the pixel payload
\* of canvas, imageData and dataURL alike) and the descriptor fields.
\* origins one pixel short of the tile size apart
sourceOriginOverlapping(index, size) == index * (size - 1)

\* sourceX = col * partWidth, sourceY = row * partHeight
sourceOrigin(index, size) == index * size

partInfoOf(img, row, col, rows, cols, partWidth, partHeight, paperSize, dpi) ==
  [dataURL    |-> [file |-> img.file, sourceX |-> sourceOrigin(col, partWidth),
                   sourceY |-> sourceOrigin(row, partHeight),
                   width |-> partWidth, height |-> partHeight],
   position   |-> [row |-> row, col |-> col],
   dimensions |-> [width |-> partWidth, height |-> partHeight],
   paperSize  |-> paperSize,
   dpi        |-> dpi,
   partNumber |-> partNumberOf(row, col, rows, cols),
   totalParts |-> rows * cols]

\* for (row ...) for (col ...) { ...; this.imageParts.push(partInfo) }
RECURSIVE divideLoop(_, _, _, _, _, _, _, _, _, _)
divideLoop(img, row, col, rows, cols, partWidth, partHeight, paperSize, dpi, acc) ==
  IF row >= rows THEN acc
  ELSE IF col >= cols
    THEN divideLoop(img, row + 1, 0, rows, cols, partWidth, partHeight, paperSize, dpi, acc)
    ELSE divideLoop(img, row, col + 1, rows, cols, partWidth, partHeight, paperSize, dpi,
                    Append(acc, partInfoOf(img, row, col, rows, cols, partWidth, partHeight,
                                           paperSize, dpi)))

\* a processor that returns no tile instead of throwing
noImageReturnsEmpty(parts) == [raised |-> "none", value |-> <<>>, parts |-> parts]

\* if (!this.originalImage) throw new Error('No hay imagen cargada'), the first
\* statement of divideImage: nothing is returned and imageParts is not touched
noImage(parts) == [raised |-> "No hay imagen cargada", value |-> <<>>, parts |-> parts]

\* a processor that keeps pushing onto the tiles of the call before
keepParts(parts) == parts

\* this.imageParts = [] before the loops
resetParts(parts) == <<>>

\* divideImage(pattern, dpi) on a processor holding img and parts: what it raises
\* ("none" when it returns), what it returns and the imageParts it leaves.
\* ctx.getImageData(0, 0, sw, sh) throws IndexSizeError when sw or sh is zero
\* (HTML canvas 2D context), which happens in the first loop iteration, after
\* this.imageParts = [] and before the first push.
divideImage(img, parts, pattern, dpi) ==
  IF img = NoImage
    THEN noImage(parts)
    ELSE LET grid == getGridDimensions(pattern)
             partWidth == partSize(img.width, grid.cols)
             partHeight == partSize(img.height, grid.rows)
         IN IF partWidth = 0 \/ partHeight = 0
              THEN [raised |-> "IndexSizeError", value |-> resetParts(parts),
                    parts |-> resetParts(parts)]
              ELSE LET new == divideLoop(img, 0, 0, grid.rows, grid.cols, partWidth,
                                         partHeight, grid.paperSize, dpi, resetParts(parts))
                   IN [raised |-> "none", value |-> new, parts |-> new]

\* generatePreview(pattern): [] without an image, else divideImage(pattern) with the
\* default dpi; the previews carry partNumber, totalParts, paperSize and position.
generatePreview(img, parts, pattern) ==
  IF img = NoImage
    THEN [raised |-> "none", value |-> <<>>, parts |-> parts]
    ELSE LET r == divideImage(img, parts, pattern, DefaultDpi)
         IN [raised |-> r.raised, parts |-> r.parts,
             value |-> [k \in 1..Len(r.value) |->
                          [partNumber |-> r.value[k].partNumber,
                           totalParts |-> r.value[k].totalParts,
                           paperSize  |-> r.value[k].paperSize,
                           position   |-> r.value[k].position]]]

NoCall == [op |-> "none", pattern |-> Null, dpi |-> 0, image |-> NoImage,
           raised |-> "none", value |-> <<>>]

\* no divideImage call has returned on the processor's present image
NoFirstCall == [op |-> "none", pattern |-> Null, dpi |-> 0, image |-> NoImage,
                value |-> <<>>, others |-> FALSE]

\* the record of calls on one image: the first divideImage(pattern, dpi) that returns
\* is kept with its tile list; later divideImage and generatePreview calls with
\* another pattern are noted in its field others
recordCall(first, img, pattern, dpi, r, isDivide) ==
  IF img = NoImage THEN first
  ELSE IF first.op = "none"
    THEN IF isDivide /\ r.raised = "none"
           THEN [op |-> "divideImage", pattern |-> pattern, dpi |-> dpi, image |-> img,
                 value |-> r.value, others |-> FALSE]
           ELSE first
    ELSE IF pattern # first.pattern THEN [first EXCEPT !.others = TRUE] ELSE first

\* img.onload of loadImage(file): the decoded image becomes the processor's image
LoadImage(f, w, h) ==
  /\ originalImage' = [file |-> f, width |-> w, height |-> h]
  /\ ret' = [NoCall EXCEPT !.op = "loadImage", !.image = originalImage']
  /\ firstCall' = NoFirstCall
  /\ UNCHANGED imageParts

\* img.onerror of loadImage(file): the promise rejects, the processor is untouched
LoadImageError(f) ==
  /\ ret' = [NoCall EXCEPT !.op = "loadImage", !.image = originalImage,
                           !.raised = "No se pudo cargar la imagen"]
  /\ UNCHANGED <<originalImage, imageParts, firstCall>>

DivideImage(pattern, dpi) ==
  LET r == divideImage(originalImage, imageParts, pattern, dpi)
  IN /\ imageParts' = r.parts
     /\ ret' = [op |-> "divideImage", pattern |-> pattern, dpi |-> dpi,
                image |-> originalImage, raised |-> r.raised, value |-> r.value]
     /\ firstCall' = recordCall(firstCall, originalImage, pattern, dpi, r, TRUE)
     /\ UNCHANGED originalImage

GeneratePreview(pattern) ==
  LET r == generatePreview(originalImage, imageParts, pattern)
  IN /\ imageParts' = r.parts
     /\ ret' = [op |-> "generatePreview", pattern |-> pattern, dpi |-> DefaultDpi,
                image |-> originalImage, raised |-> r.raised, value |-> r.value]
     /\ firstCall' = recordCall(firstCall, originalImage, pattern, DefaultDpi, r, FALSE)
     /\ UNCHANGED originalImage

Cleanup ==
  /\ imageParts' = <<>>
  /\ originalImage' = NoImage
  /\ firstCall' = NoFirstCall
  /\ ret' = [NoCall EXCEPT !.op = "cleanup"]

-----------------------------------------------------------------------------
(* Exact rational arithmetic for the page geometry: [n, d] with d > 0, reduced *)

Abs(x) == IF x < 0 THEN -x ELSE x

RECURSIVE GCD(_, _)
GCD(a, b) == IF b = 0 THEN a ELSE GCD(b, a % b)

Rat(n, d) ==
  LET g == GCD(Abs(n), Abs(d))
      s == IF d < 0 THEN -1 ELSE 1
  IN [n |-> (s * n) \div g, d |-> (s * d) \div g]

RInt(i) == [n |-> i, d |-> 1]

RAdd(a, b) ==
  LET l == (a.d \div GCD(a.d, b.d)) * b.d
  IN Rat(a.n * (l \div a.d) + b.n * (l \div b.d), l)

RNeg(a) == [n |-> -a.n, d |-> a.d]

RSub(a, b) == RAdd(a, RNeg(b))

RMul(a, b) ==
  LET g1 == GCD(Abs(a.n), b.d)
      g2 == GCD(Abs(b.n), a.d)
  IN Rat((a.n \div g1) * (b.n \div g2), (a.d \div g2) * (b.d \div g1))

\* b # 0
RDiv(a, b) == RMul(a, Rat(b.d, b.n))

RLeq(a, b) == a.n * b.d <= b.n * a.d

RMin(a, b) == IF RLeq(a, b) THEN a ELSE b

RMax(a, b) == IF RLeq(a, b) THEN b ELSE a

-----------------------------------------------------------------------------
(* The PDFGenerator: generatePDF and the page it composes for each tile *)

\* options.pattern = null, the default of generatePDF
NullPattern == [rows |-> 0, cols |-> 0, paperSize |-> "null", landscape |-> "undefined"]

\* pattern && pattern.landscape === true
isLandscape(pattern) == pattern # NullPattern /\ pattern.landscape = "true"

pageWidthOf(paperSize, pattern) ==
  IF isLandscape(pattern) THEN PAPER_SIZES[paperSize].heightPx
  ELSE PAPER_SIZES[paperSize].widthPx

pageHeightOf(paperSize, pattern) ==
  IF isLandscape(pattern) THEN PAPER_SIZES[paperSize].widthPx
  ELSE PAPER_SIZES[paperSize].heightPx

\* this.pdfDoc.addPage([pageWidth, pageHeight]): a page with no draw call yet
addPage(paperSize, pattern) ==
  [width |-> pageWidthOf(paperSize, pattern), height |-> pageHeightOf(paperSize, pattern),
   images |-> <<>>, lines |-> <<>>, pageNumbers |-> <<>>, partInfos |-> <<>>]

\* margins * 1.2
inflate(margins) == RMul(RInt(margins), Rat(12, 10))

scaleMax(maxWidth, maxHeight, dimensions) ==
  RMax(RDiv(maxWidth, RInt(dimensions.width)), RDiv(maxHeight, RInt(dimensions.height)))

\* Math.min(maxWidth / dimensions.width, maxHeight / dimensions.height)
scaleOf(maxWidth, maxHeight, dimensions) ==
  RMin(RDiv(maxWidth, RInt(dimensions.width)), RDiv(maxHeight, RInt(dimensions.height)))

originAtMargin(pageExtent, finalExtent, margins) == RInt(margins)

\* (pageWidth - finalWidth) / 2, (pageHeight - finalHeight) / 2
originOf(pageExtent, finalExtent, margins) ==
  RDiv(RSub(RInt(pageExtent), finalExtent), RInt(2))

\* addImageToPage(page, image, dimensions, margins): one drawImage call
addImageToPage(page, image, dimensions, margins) ==
  LET maxWidth == RSub(RInt(page.width), inflate(margins))
      maxHeight == RSub(RInt(page.height), inflate(margins))
      scale == scaleOf(maxWidth, maxHeight, dimensions)
      finalWidth == RMul(RInt(dimensions.width), scale)
      finalHeight == RMul(RInt(dimensions.height), scale)
  IN [page EXCEPT !.images = Append(@,
        [image |-> image,
         x |-> originOf(page.width, finalWidth, margins),
         y |-> originOf(page.height, finalHeight, margins),
         width |-> finalWidth, height |-> finalHeight])]

guideLength == 15

Line(x1, y1, x2, y2) == [start |-> [x |-> x1, y |-> y1], end |-> [x |-> x2, y |-> y2]]

\* addCuttingGuides(page, margins): the four drawLine calls of the source, in order
addCuttingGuides(page, margins) ==
  [page EXCEPT !.lines = @ \o
     << Line(margins, margins, margins + guideLength, margins),
        Line(margins, margins, margins, margins + guideLength),
        Line(page.width - margins - guideLength, margins, page.width - margins, margins),
        Line(page.width - margins, margins, page.width - margins, margins + guideLength) >>]

RECURSIVE digits(_)
digits(k) == IF k < 10 THEN 1 ELSE 1 + digits(k \div 10)

\* font.widthOfTextAtSize(`Página ${current} de ${total}`, 10) in Helvetica: the
\* letters and spaces are 5059/1000 em wide, each digit 556/1000 em
widthOfPageNumber(current, total) ==
  Rat((5059 + 556 * (digits(current) + digits(total))) * 10, 1000)

\* addPageNumber(page, font, current, total): one drawText call
addPageNumber(page, current, total) ==
  [page EXCEPT !.pageNumbers = Append(@,
     [current |-> current, total |-> total,
      x |-> RSub(RSub(RInt(page.width), widthOfPageNumber(current, total)), RInt(30)),
      y |-> 20, size |-> 10])]

\* a label that prints the indices as they are stored
addPartInfoZeroBased(page, part) ==
  [page EXCEPT !.partInfos = Append(@,
     [row |-> part.position.row, col |-> part.position.col,
      paperSize |-> part.paperSize, dpi |-> part.dpi,
      x |-> 30, y |-> page.height - 20, size |-> 10])]

\* addPartInfo(page, font, part): one drawText call
addPartInfo(page, part) ==
  [page EXCEPT !.partInfos = Append(@,
     [row |-> part.position.row + 1, col |-> part.position.col + 1,
      paperSize |-> part.paperSize, dpi |-> part.dpi,
      x |-> 30, y |-> page.height - 20, size |-> 10])]

\* The loop body of generatePDF after the image is embedded, index counted from 0
composePage(page, part, index, g) ==
  LET p1 == addImageToPage(page, part.dataURL, part.dimensions, g.margins)
      p2 == IF g.addGuides THEN addCuttingGuides(p1, g.margins) ELSE p1
      p3 == IF g.addPageNumbers THEN addPageNumber(p2, index + 1, Len(g.imageParts)) ELSE p2
  IN addPartInfo(p3, part)

\* A generatePDF call as it starts: the options, the position in the function (pc,
\* index), the document's pages, how the call ended (pdf), the embeds that rejected,
\* and what the caller did with the outcome (errors shown, downloads triggered)
newGenerator(caller, parts, paperSize, pattern, margins, addGuides, addPageNumbers) ==
  [caller |-> caller, imageParts |-> parts, paperSize |-> paperSize, pattern |-> pattern,
   margins |-> margins, addGuides |-> addGuides, addPageNumbers |-> addPageNumbers,
   pc |-> "init", index |-> 0, pages |-> <<>>, pdf |-> "pending", embedErrors |-> 0,
   reported |-> 0, downloads |-> <<>>]

\* file.name as its dot-separated segments
FileName(f) == IF f = 1 THEN <<"poster", "png">> ELSE <<"photo", "v2", "jpg">>

\* file.type
FileType(f) ==
  CASE f = 1 -> "image/png"
    [] f = 2 -> "image/jpeg"
    [] f = 3 -> "image/gif"
    [] OTHER -> "image/png"

\* file.size, in bytes: file 1 is exactly MAX_FILE_SIZE long
FileSize(f) ==
  CASE f = 1 -> MAX_FILE_SIZE
    [] f = 4 -> MAX_FILE_SIZE + 1
    [] OTHER -> 2048 * f

\* the image a file decodes to
FileWidth(f) == IF f = 1 THEN 1000 ELSE 1
FileHeight(f) == IF f = 1 THEN 700 ELSE 3

\* `${this.currentFile.name.split(".")[0]}_divided.pdf`
downloadName(f) == <<FileName(f)[1], "_divided.pdf">>

\* exportPDF's catch: this.showError("Error al generar PDF: " + error.message)
exportFailed(g, message) ==
  [g EXCEPT !.pc = "failed", !.reported = @ + 1]

\* await this.initDocument(paperSize) resumes
GenInit(i) ==
  /\ i \in 1..Len(gens)
  /\ gens[i].pc = "init"
  /\ gens' = [gens EXCEPT ![i].pc = "font"]
  /\ UNCHANGED <<ipVars, appVars>>

nextTileEager(g) ==
  IF g.index < Len(g.imageParts)
    THEN [g EXCEPT !.pc = "embed",
                   !.pages = g.pages \o [k \in 1..(Len(g.imageParts) - g.index) |->
                                           addPage(g.paperSize, g.pattern)]]
    ELSE [g EXCEPT !.pc = "save"]

\* The head of the for loop: with a tile left, add its page and start embedding its
\* image (the call suspends at await this.embedImage); with none, call pdfDoc.save()
nextTile(g) ==
  IF g.index < Len(g.imageParts)
    THEN [g EXCEPT !.pc = "embed", !.pages = Append(@, addPage(g.paperSize, g.pattern))]
    ELSE [g EXCEPT !.pc = "save"]

\* await this.pdfDoc.embedFont(...) resumes: the loop starts
GenFont(i) ==
  /\ i \in 1..Len(gens)
  /\ gens[i].pc = "font"
  /\ gens' = [gens EXCEPT ![i] = nextTile(@)]
  /\ UNCHANGED <<ipVars, appVars>>

\* the draw calls on the page of tile g.index + 1, which is the document's last page
drawTile(g) ==
  LET k == Len(g.pages)
  IN [g EXCEPT !.pages[k] = composePage(g.pages[k], g.imageParts[g.index + 1], g.index, g),
               !.index = g.index + 1]

\* await this.embedImage(part.dataURL) resumes with the image: the rest of the loop
\* body runs without suspending, then the next iteration up to its own embed
GenEmbedded(i) ==
  /\ i \in 1..Len(gens)
  /\ gens[i].pc = "embed"
  /\ gens' = [gens EXCEPT ![i] = nextTile(drawTile(@))]
  /\ UNCHANGED <<ipVars, appVars>>

embedFailedContinue(g) ==
  nextTile([g EXCEPT !.index = g.index + 1])

\* embedImage rejects: generatePDF's catch rethrows, nothing else of the call runs
embedFailed(g) == [g EXCEPT !.pdf = "raised", !.pc = "failed"]

\* await this.embedImage(part.dataURL) rejects; exportPDF's catch reports it
GenEmbedError(i) ==
  /\ i \in 1..Len(gens)
  /\ gens[i].pc = "embed"
  /\ LET g == embedFailed([gens[i] EXCEPT !.embedErrors = @ + 1])
     IN IF g.pc = "failed" /\ g.caller = "App"
          THEN /\ gens' = [gens EXCEPT ![i] = exportFailed(g, "embed")]
               /\ errorMessage' = "Error al generar PDF: Error al generar PDF: embed"
               /\ UNCHANGED <<pond, currentFile, currentPattern, currentDpi, exportEnabled, loading, events>>
          ELSE /\ gens' = [gens EXCEPT ![i] = g]
               /\ UNCHANGED appVars
  /\ UNCHANGED ipVars

\* await this.pdfDoc.save() resumes: generatePDF returns the bytes; exportPDF names the
\* download after this.currentFile as it is now (a TypeError when it is null)
GenSaved(i) ==
  /\ i \in 1..Len(gens)
  /\ gens[i].pc = "save"
  /\ LET g == [gens[i] EXCEPT !.pdf = "returned"]
     IN IF g.caller # "App"
          THEN /\ gens' = [gens EXCEPT ![i] = [g EXCEPT !.pc = "done"]]
               /\ UNCHANGED appVars
          ELSE IF currentFile = NoFile
            THEN /\ gens' = [gens EXCEPT ![i] = exportFailed(g, "TypeError")]
                 /\ errorMessage' = "Error al generar PDF: TypeError"
                 /\ UNCHANGED <<pond, currentFile, currentPattern, currentDpi, exportEnabled, loading, events>>
            ELSE /\ gens' = [gens EXCEPT ![i] =
                               [g EXCEPT !.pc = "done",
                                         !.downloads = Append(@, downloadName(currentFile))]]
                 /\ UNCHANGED appVars
  /\ UNCHANGED ipVars


-----------------------------------------------------------------------------
(* The ImageProcessor on its own, driven through its public methods *)

InitApp ==
  /\ pond = NoFile
  /\ currentFile = NoFile
  /\ currentPattern = DefaultPattern
  /\ currentDpi = DefaultDpi
  /\ exportEnabled = FALSE
  /\ errorMessage = ""
  /\ loading = {}
  /\ events = 0

InitProcessor ==
  /\ originalImage = NoImage
  /\ imageParts = <<>>
  /\ ret = NoCall
  /\ firstCall = NoFirstCall

InitDivide ==
  /\ InitProcessor
  /\ InitApp
  /\ gens = <<>>

\* the processor does not read which file an image came from: one file stands for all
NextDivide ==
  \/ \E w \in Widths, h \in Heights :
       LoadImage(AnyFile, w, h) /\ UNCHANGED <<appVars, gens>>
  \/ LoadImageError(AnyFile) /\ UNCHANGED <<appVars, gens>>
  \/ \E p \in PatternIds, d \in DPI_OPTIONS :
       DivideImage(p, d) /\ UNCHANGED <<appVars, gens>>
  \/ \E p \in PatternIds : GeneratePreview(p) /\ UNCHANGED <<appVars, gens>>
  \/ Cleanup /\ UNCHANGED <<appVars, gens>>

SpecDivide == InitDivide /\ [][NextDivide]_vars

-----------------------------------------------------------------------------
(* The PDFGenerator on its own: one generatePDF call on the tiles of a processor *)
(* after a divideImage that returned, with any options                           *)

\* margins: none, MARGINS.small, the App's 8, the default 10, and one wider than a page
MarginOptions == {0, 5, 8, 10, 3000}
\* options.pattern: absent, or a table entry with landscape absent, false or true
PatternOptions ==
  {NullPattern} \cup {DIVISION_PATTERNS[p] : p \in {"A4_2x1", "A4_2x2", "A4_2x2_H"}}
ComposeWidths == {1, 3, 1000}
ComposeHeights == {1, 2, 700}
ComposePatterns == {"A4_2x1", "A4_1x2", "A3_2x2", "A3_SINGLE"}

InitCompose ==
  /\ \E w \in ComposeWidths, h \in ComposeHeights, p \in ComposePatterns, d \in DPI_OPTIONS :
       /\ originalImage = [file |-> AnyFile, width |-> w, height |-> h]
       /\ divideImage(originalImage, <<>>, p, d).raised = "none"
       /\ imageParts = divideImage(originalImage, <<>>, p, d).parts
  /\ ret = NoCall
  /\ firstCall = NoFirstCall
  /\ InitApp
  /\ gens = <<>>

CallGeneratePDF(paperSize, pattern, margins, addGuides, addPageNumbers) ==
  /\ gens = <<>>
  /\ gens' = <<newGenerator("direct", imageParts, paperSize, pattern, margins,
                            addGuides, addPageNumbers)>>
  /\ UNCHANGED <<ipVars, appVars>>

NextCompose ==
  \/ \E paperSize \in PaperIds, pattern \in PatternOptions, margins \in MarginOptions,
        addGuides \in BOOLEAN, addPageNumbers \in BOOLEAN :
       CallGeneratePDF(paperSize, pattern, margins, addGuides, addPageNumbers)
  \/ \E i \in 1..Len(gens) : GenInit(i)
  \/ \E i \in 1..Len(gens) : GenFont(i)
  \/ \E i \in 1..Len(gens) : GenEmbedded(i)
  \/ \E i \in 1..Len(gens) : GenEmbedError(i)
  \/ \E i \in 1..Len(gens) : GenSaved(i)

SpecCompose == InitCompose /\ [][NextCompose]_vars

-----------------------------------------------------------------------------
(* The App: file, pattern, dpi and export events around the two modules *)

imageOfFile(f) == [file |-> f, width |-> FileWidth(f), height |-> FileHeight(f)]

\* App.generatePreview(): the processor's generatePreview(this.currentPattern), its
\* error caught and shown
AppGeneratePreview(img, pattern) ==
  LET r == generatePreview(img, imageParts, pattern)
  IN /\ imageParts' = r.parts
     /\ errorMessage' = IF r.raised # "none" THEN "Error al generar la vista previa"
                        ELSE errorMessage

\* one more user event, while the run's bound allows it
UserEvent ==
  /\ events < MaxEvents
  /\ events' = events + 1

\* a handler that lets every type through
anyFormat(f) == TRUE

\* isValidFormat(file): SUPPORTED_FORMATS.includes(file.type)
isValidFormat(f) == FileType(f) \in SUPPORTED_FORMATS

\* the two validations at the head of handleFileAdd: the message of the Error thrown,
\* "none" when the file passes; formatFileSize(MAX_FILE_SIZE) is "50 MB"
validateFile(f) ==
  IF ~isValidFormat(f) THEN "Formato de archivo no soportado"
  ELSE IF FileSize(f) > MAX_FILE_SIZE THEN "Archivo demasiado grande. Máximo: 50 MB"
  ELSE "none"

\* the user drops or picks file f: with allowMultiple false and allowReplace true the
\* pond's present file gives way to it, then onaddfile -> handleFileAdd(file).
\* A file that fails a validation goes to the catch: handleError -> onError ->
\* showError, then pond.removeFile, whose onremovefile -> handleFileRemove ->
\* onFileRemove -> resetUI. A file that passes goes to onFileLoad up to its await of
\* loadImage(file). Whether the pond announces the file that gave way through
\* onremovefile (resetUI disabling the export button before onFileLoad runs) is
\* FilePond's choice: both outcomes are kept.
FileAdd(f) ==
  /\ UserEvent
  /\ f \notin loading
  /\ f # pond
  /\ IF validateFile(f) # "none"
       THEN /\ errorMessage' = validateFile(f)
            /\ pond' = NoFile
            /\ currentFile' = NoFile
            /\ exportEnabled' = FALSE
            /\ UNCHANGED loading
       ELSE /\ pond' = f
            /\ currentFile' = f
            /\ loading' = loading \cup {f}
            /\ exportEnabled' \in IF pond # NoFile THEN {exportEnabled, FALSE}
                                   ELSE {exportEnabled}
            /\ UNCHANGED errorMessage
  /\ UNCHANGED <<ipVars, currentPattern, currentDpi, gens>>

\* img.onload: handleNewImage and onFileLoad run to their ends
LoadDone(f) ==
  /\ f \in loading
  /\ loading' = loading \ {f}
  /\ originalImage' = imageOfFile(f)
  /\ AppGeneratePreview(originalImage', currentPattern)
  /\ exportEnabled' = TRUE
  /\ UNCHANGED <<ret, firstCall, pond, currentFile, currentPattern, currentDpi, events, gens>>

\* img.onerror: handleNewImage rethrows, onFileLoad's catch shows the error
LoadFail(f) ==
  /\ f \in loading
  /\ loading' = loading \ {f}
  /\ errorMessage' = "Error al procesar la imagen: No se pudo cargar la imagen"
  /\ UNCHANGED <<ipVars, pond, currentFile, currentPattern, currentDpi, exportEnabled, events, gens>>

\* onremovefile -> handleFileRemove -> onFileRemove -> resetUI
FileRemove ==
  /\ UserEvent
  /\ pond # NoFile
  /\ pond' = NoFile
  /\ currentFile' = NoFile
  /\ exportEnabled' = FALSE
  /\ UNCHANGED <<ipVars, currentPattern, currentDpi, errorMessage, loading, gens>>

\* "change" on the pattern select
PatternChange(p) ==
  /\ p # currentPattern
  /\ UserEvent
  /\ currentPattern' = p
  /\ IF currentFile # NoFile
       THEN AppGeneratePreview(originalImage, p)
       ELSE UNCHANGED <<imageParts, errorMessage>>
  /\ UNCHANGED <<originalImage, ret, firstCall, pond, currentFile, currentDpi, exportEnabled, loading, gens>>

\* "change" on the dpi select
DpiChange(d) ==
  /\ d # currentDpi
  /\ UserEvent
  /\ currentDpi' = d
  /\ IF currentFile # NoFile
       THEN AppGeneratePreview(originalImage, currentPattern)
       ELSE UNCHANGED <<imageParts, errorMessage>>
  /\ UNCHANGED <<originalImage, ret, firstCall, pond, currentFile, currentPattern, exportEnabled, loading, gens>>

AppMargins == 8

\* "click" on the export button: exportPDF up to its await of generatePDF, or to its
\* catch when there is no current file or divideImage throws
ExportClick ==
  /\ UserEvent
  /\ exportEnabled
  /\ LET r == divideImage(originalImage, imageParts, currentPattern, currentDpi)
         g == newGenerator("App", r.value, DIVISION_PATTERNS[currentPattern].paperSize,
                           DIVISION_PATTERNS[currentPattern], AppMargins, TRUE, TRUE)
     IN IF currentFile = NoFile
          THEN /\ gens' = Append(gens, exportFailed(g, "No hay imagen cargada"))
               /\ errorMessage' = "Error al generar PDF: No hay imagen cargada"
               /\ UNCHANGED imageParts
          ELSE IF r.raised # "none"
            THEN /\ gens' = Append(gens, exportFailed(g, r.raised))
                 /\ errorMessage' = "Error al generar PDF: " \o r.raised
                 /\ imageParts' = r.parts
            ELSE /\ gens' = Append(gens, g)
                 /\ imageParts' = r.parts
                 /\ UNCHANGED errorMessage
  /\ UNCHANGED <<originalImage, ret, firstCall, pond, currentFile, currentPattern, currentDpi, exportEnabled,
                 loading>>

Init ==
  /\ InitProcessor
  /\ pond = NoFile
  /\ currentFile = NoFile
  /\ currentPattern = DefaultPattern
  /\ currentDpi = DefaultDpi
  /\ exportEnabled \in BOOLEAN
  /\ errorMessage = ""
  /\ loading = {}
  /\ events = 0
  /\ gens = <<>>

Next ==
  \/ \E f \in Files : FileAdd(f)
  \/ \E f \in Files : LoadDone(f)
  \/ \E f \in Files : LoadFail(f)
  \/ FileRemove
  \/ \E p \in TablePatternIds : PatternChange(p)
  \/ \E d \in DPI_OPTIONS : DpiChange(d)
  \/ ExportClick
  \/ \E i \in 1..Len(gens) : GenInit(i)
  \/ \E i \in 1..Len(gens) : GenFont(i)
  \/ \E i \in 1..Len(gens) : GenEmbedded(i)
  \/ \E i \in 1..Len(gens) : GenEmbedError(i)
  \/ \E i \in 1..Len(gens) : GenSaved(i)

Spec == Init /\ [][Next]_vars

-----------------------------------------------------------------------------
(* Claims about divideImage, checked under SpecDivide *)

gridOfCall == getGridDimensions(ret.pattern)

\* C1: for every loaded image and every pattern, divideImage returns exactly rows*cols
\* tiles in row-major order, with partNumber = row*cols + col + 1 running 1..rows*cols
\* and totalParts = rows*cols on every tile.
C1_Claim ==
  (ret.op = "divideImage" /\ ret.image # NoImage) =>
    /\ ret.raised = "none"
    /\ Len(ret.value) = gridOfCall.rows * gridOfCall.cols
    /\ \A k \in 1..Len(ret.value) :
         /\ ret.value[k].partNumber = k
         /\ ret.value[k].position.row = (k - 1) \div gridOfCall.cols
         /\ ret.value[k].position.col = (k - 1) % gridOfCall.cols
         /\ ret.value[k].partNumber =
              ret.value[k].position.row * gridOfCall.cols + ret.value[k].position.col + 1
         /\ ret.value[k].totalParts = gridOfCall.rows * gridOfCall.cols

\* C2: every tile of one divideImage call is floor(sourceWidth / cols) wide and
\* floor(sourceHeight / rows) high; a 1x1 pattern yields one tile of the source's size,
\* a 1000x700 source under a 2x2 pattern four tiles of 500x350.
C2_TileDimensions ==
  (ret.op = "divideImage" /\ ret.raised = "none") =>
    /\ \A k \in 1..Len(ret.value) :
         /\ ret.value[k].dimensions.width * gridOfCall.cols <= ret.image.width
         /\ ret.image.width < (ret.value[k].dimensions.width + 1) * gridOfCall.cols
         /\ ret.value[k].dimensions.height * gridOfCall.rows <= ret.image.height
         /\ ret.image.height < (ret.value[k].dimensions.height + 1) * gridOfCall.rows
    /\ (gridOfCall.rows = 1 /\ gridOfCall.cols = 1) =>
         /\ Len(ret.value) = 1
         /\ ret.value[1].dimensions = [width |-> ret.image.width, height |-> ret.image.height]
    /\ (ret.image.width = 1000 /\ ret.image.height = 700
        /\ gridOfCall.rows = 2 /\ gridOfCall.cols = 2) =>
         /\ Len(ret.value) = 4
         /\ \A k \in 1..4 : ret.value[k].dimensions = [width |-> 500, height |-> 350]

C2_Witness ==
  /\ ret.op = "divideImage"
  /\ ret.raised = "none"
  /\ ret.image.width = 3
  /\ ret.image.height = 700
  /\ gridOfCall.rows = 2
  /\ gridOfCall.cols = 2
  /\ Len(ret.value) = 4
  /\ ret.value[4].dimensions = [width |-> 1, height |-> 350]

\* C3: divideImage with a pattern id that is not in the partitioner's pattern table
\* does not raise; it partitions with the default pattern (2 rows x 2 columns, A4)
\* and yields 4 tiles.
C3_Claim ==
  (ret.op = "divideImage" /\ ret.image # NoImage /\ ret.pattern \notin DOMAIN GridPatterns) =>
    /\ ret.raised = "none"
    /\ Len(ret.value) = 4
    /\ \A k \in 1..Len(ret.value) :
         /\ ret.value[k].paperSize = "A4"
         /\ ret.value[k].totalParts = 4
         /\ ret.value[k].position.row \in {0, 1}
         /\ ret.value[k].position.col \in {0, 1}

\* C4: divideImage while no image is loaded (never loaded, load failed, or after
\* cleanup) fails with an error before any partitioning: it returns no tile and
\* leaves the stored tile list as it was.
C4_NoImageFails ==
  [][\A p \in PatternIds, d \in DPI_OPTIONS :
       (originalImage = NoImage /\ DivideImage(p, d)) =>
         /\ ret'.raised = "No hay imagen cargada"
         /\ ret'.value = <<>>
         /\ imageParts' = imageParts]_vars

C4_Witness ==
  /\ ret.op = "divideImage"
  /\ ret.image = NoImage
  /\ ret.raised = "No hay imagen cargada"
  /\ originalImage = NoImage
  /\ imageParts = <<>>

-----------------------------------------------------------------------------
(* Claims about the composed pages *)

\* the pages of call g whose draw calls have run
Composed(g) == 1..g.index

Usable(extent, margins) == RSub(RInt(extent), Rat(12 * margins, 10))

\* C5: on every composed page the placed image keeps the tile's aspect ratio
\* (finalWidth * tile.height = finalHeight * tile.width) and fits the usable area
\* (finalWidth <= pageWidth - margin*1.2, finalHeight <= pageHeight - margin*1.2),
\* for any tile, paper, orientation and margin. Checked under SpecCompose.
C5_AspectAndFit ==
  \A i \in 1..Len(gens) : \A k \in Composed(gens[i]) :
    LET g == gens[i]
        page == g.pages[k]
        tile == g.imageParts[k].dimensions
    IN /\ Len(page.images) = 1
       /\ RMul(page.images[1].width, RInt(tile.height))
            = RMul(page.images[1].height, RInt(tile.width))
       /\ RLeq(page.images[1].width, Usable(page.width, g.margins))
       /\ RLeq(page.images[1].height, Usable(page.height, g.margins))

\* a tile wider than the usable area's shape and one taller than it, both placed
C5_Witness ==
  \E i \in 1..Len(gens) : \E k \in Composed(gens[i]) :
    LET g == gens[i]
        page == g.pages[k]
    IN /\ g.margins = 8
       /\ g.imageParts[k].dimensions = [width |-> 500, height |-> 700]
       /\ page.width = 3508
       /\ page.height = 2480
       /\ page.images[1].height = Usable(page.height, g.margins)
       /\ page.images[1].width # Usable(page.width, g.margins)

\* C6: on every composed page the image rectangle is centered on the full page on
\* both axes, x + finalWidth/2 = pageWidth/2 and y + finalHeight/2 = pageHeight/2,
\* whatever the margin. Checked under SpecCompose.
C6_Centered ==
  \A i \in 1..Len(gens) : \A k \in Composed(gens[i]) :
    LET page == gens[i].pages[k]
        im == page.images[1]
    IN /\ RAdd(im.x, RDiv(im.width, RInt(2))) = Rat(page.width, 2)
       /\ RAdd(im.y, RDiv(im.height, RInt(2))) = Rat(page.height, 2)

C6_Witness ==
  \E i \in 1..Len(gens) : \E k \in Composed(gens[i]) :
    LET g == gens[i]
        im == g.pages[k].images[1]
    IN /\ g.margins = 10
       /\ im.x # RInt(g.margins)
       /\ im.y # RInt(g.margins)
       /\ im.x # RInt(0)
       /\ im.y # RInt(0)

NoDraws(page) ==
  /\ page.images = <<>>
  /\ page.lines = <<>>
  /\ page.pageNumbers = <<>>
  /\ page.partInfos = <<>>

\* C7: generatePDF composes the pages one at a time in tile-list order: the page of
\* the next tile does not exist until the current tile's embed and draw calls are
\* done, and in an N-tile export the k-th page shows the tile with partNumber k and
\* carries the page-number label current = k, total = N. Checked under Spec.
C7_PagesInOrder ==
  \A i \in 1..Len(gens) :
    LET g == gens[i]
        N == Len(g.imageParts)
    IN /\ Len(g.pages) <= g.index + 1
       /\ Len(g.pages) <= N
       /\ (Len(g.pages) = g.index + 1) => g.pc \in {"embed", "failed"}
       /\ \A k \in 1..Len(g.pages) :
            IF k <= g.index
              THEN /\ Len(g.pages[k].images) = 1
                   /\ g.pages[k].images[1].image = g.imageParts[k].dataURL
                   /\ g.imageParts[k].partNumber = k
                   /\ Len(g.pages[k].pageNumbers) = 1
                   /\ g.pages[k].pageNumbers[1].current = k
                   /\ g.pages[k].pageNumbers[1].total = N
                   /\ Len(g.pages[k].partInfos) = 1
              ELSE NoDraws(g.pages[k])

\* a 4-tile export with all four pages composed
C7_Witness ==
  \E i \in 1..Len(gens) :
    /\ gens[i].pc = "done"
    /\ Len(gens[i].imageParts) = 4
    /\ Len(gens[i].pages) = 4
    /\ gens[i].pages[4].pageNumbers[1].current = 4

\* C8: if embedding the image of tile k fails, generatePDF raises one error, no page
\* is created or drawn for any tile after k, the document is never serialized or
\* returned, and the App shows exactly one error message for that export attempt and
\* triggers no download. Checked under Spec.
C8_EmbedFailureAborts ==
  \A i \in 1..Len(gens) :
    LET g == gens[i]
    IN g.embedErrors > 0 =>
         /\ g.embedErrors = 1
         /\ g.pdf = "raised"
         /\ g.pc = "failed"
         /\ g.reported = 1
         /\ g.downloads = <<>>
         /\ Len(g.pages) = g.index + 1
         /\ NoDraws(g.pages[g.index + 1])
         /\ errorMessage # ""

\* the embed of tile 2 of 4 failed
C8_Witness ==
  \E i \in 1..Len(gens) :
    /\ gens[i].embedErrors = 1
    /\ gens[i].index = 1
    /\ Len(gens[i].imageParts) = 4
    /\ Len(gens[i].pages) = 2

pageWidthAtDpi(paperSize, pattern, dpi) ==
  IF isLandscape(pattern) THEN convertMmToPx(PAPER_SIZES[paperSize].height, dpi)
  ELSE convertMmToPx(PAPER_SIZES[paperSize].width, dpi)

pageHeightAtDpi(paperSize, pattern, dpi) ==
  IF isLandscape(pattern) THEN convertMmToPx(PAPER_SIZES[paperSize].width, dpi)
  ELSE convertMmToPx(PAPER_SIZES[paperSize].height, dpi)

\* C9: each page's pixel dimensions are the paper's pixel-equivalent width and height
\* at the DPI chosen for the export (150, 300 or 600), swapped exactly when the
\* pattern's landscape flag is true. Checked under Spec.
C9_Claim ==
  \A i \in 1..Len(gens) : \A k \in 1..Len(gens[i].pages) :
    LET g == gens[i]
        dpi == g.imageParts[k].dpi
    IN /\ dpi \in DPI_OPTIONS
       /\ g.pages[k].width = pageWidthAtDpi(g.paperSize, g.pattern, dpi)
       /\ g.pages[k].height = pageHeightAtDpi(g.paperSize, g.pattern, dpi)

hasSegment(lines, a, b) ==
  \E j \in 1..Len(lines) :
    \/ lines[j].start = a /\ lines[j].end = b
    \/ lines[j].start = b /\ lines[j].end = a

\* an L at anchor (x, y) whose segments of length 15 run toward the page interior
hasCornerMark(lines, x, y, dx, dy) ==
  /\ hasSegment(lines, [x |-> x, y |-> y], [x |-> x + dx * 15, y |-> y])
  /\ hasSegment(lines, [x |-> x, y |-> y], [x |-> x, y |-> y + dy * 15])

\* C10: on every page composed with guides enabled, each of the four page corners has
\* an L-shaped cut mark of two segments of length exactly 15, anchored margin units in
\* from both adjacent edges, both segments running toward the page interior. Checked
\* under SpecCompose.
C10_Claim ==
  \A i \in 1..Len(gens) : \A k \in Composed(gens[i]) :
    LET g == gens[i]
        page == g.pages[k]
        m == g.margins
    IN g.addGuides =>
         /\ hasCornerMark(page.lines, m, m, 1, 1)
         /\ hasCornerMark(page.lines, page.width - m, m, -1, 1)
         /\ hasCornerMark(page.lines, m, page.height - m, 1, -1)
         /\ hasCornerMark(page.lines, page.width - m, page.height - m, -1, -1)

-----------------------------------------------------------------------------
(* Repeated divideImage calls, checked under SpecDivide *)

descriptorOf(part) ==
  [position |-> part.position, dimensions |-> part.dimensions,
   partNumber |-> part.partNumber, totalParts |-> part.totalParts,
   paperSize |-> part.paperSize, dpi |-> part.dpi]

descriptorsOf(parts) == [k \in 1..Len(parts) |-> descriptorOf(parts[k])]

\* C11: a divideImage call with the image, pattern and dpi of an earlier call that
\* returned yields the same tile descriptors (position, dimensions, partNumber,
\* totalParts, paperSize, dpi), whatever divideImage and generatePreview calls with
\* other patterns ran in between.
C11_SameCallSameTiles ==
  (/\ ret.op = "divideImage"
   /\ firstCall.op = "divideImage"
   /\ ret.pattern = firstCall.pattern
   /\ ret.dpi = firstCall.dpi) =>
    /\ ret.image = firstCall.image
    /\ ret.raised = "none"
    /\ descriptorsOf(ret.value) = descriptorsOf(firstCall.value)

C11_Witness ==
  /\ ret.op = "divideImage"
  /\ firstCall.op = "divideImage"
  /\ firstCall.others
  /\ ret.pattern = firstCall.pattern
  /\ ret.dpi = firstCall.dpi
  /\ ret.image.width = 3
  /\ Len(firstCall.value) = 4
  /\ Len(ret.value) = 4

-----------------------------------------------------------------------------
(* The uploader's validation, checked under Spec *)

Rejected(f) == FileType(f) \notin SUPPORTED_FORMATS \/ FileSize(f) > MAX_FILE_SIZE

\* C12: a file whose type is not in SUPPORTED_FORMATS or whose size exceeds
\* MAX_FILE_SIZE is rejected by handleFileAdd before any loading or partitioning:
\* the error is shown through onError, the file is removed from the uploader, and
\* onFileLoad never runs for it (it never becomes the current file, no loadImage
\* starts for it, the processor's image and tiles stay as they were).
C12_InvalidFileRejected ==
  [][\A f \in Files :
       (FileAdd(f) /\ Rejected(f)) =>
         /\ errorMessage' \in {"Formato de archivo no soportado",
                               "Archivo demasiado grande. Máximo: 50 MB"}
         /\ pond' = NoFile
         /\ currentFile' # f
         /\ f \notin loading'
         /\ originalImage' = originalImage
         /\ imageParts' = imageParts
         /\ gens' = gens]_vars

C12_Witness ==
  /\ errorMessage = "Archivo demasiado grande. Máximo: 50 MB"
  /\ pond = NoFile
  /\ originalImage = imageOfFile(1)
  /\ loading = {}

-----------------------------------------------------------------------------
(* The download's name, checked under Spec *)

\* the file whose image the tiles of an export were cut from
sourceFileOf(g) == g.imageParts[1].dataURL.file

\* C13: every export that completes downloads a document named from the base name of
\* the file whose image was partitioned for that export, followed by "_divided",
\* whatever files are added, replaced or removed while the export is in flight.
C13_Claim ==
  \A i \in 1..Len(gens) :
    (gens[i].caller = "App" /\ gens[i].pc = "done") =>
      gens[i].downloads = <<downloadName(sourceFileOf(gens[i]))>>

-----------------------------------------------------------------------------
(* The two text labels, checked under SpecCompose *)

\* C14: on every composed page the part-info label shows the tile's row and column
\* counted from 1 (row index + 1, column index + 1) with the tile's paper id and dpi,
\* at x = 30, y = pageHeight - 20; the page-number label, when page numbers are on,
\* ends 30 units from the page's right edge (x = pageWidth - textWidth - 30) at y = 20.
C14_Labels ==
  \A i \in 1..Len(gens) :
    LET g == gens[i]
    IN \A k \in 1..Len(g.pages) :
         k <= g.index =>
           LET page == g.pages[k]
               part == g.imageParts[k]
           IN /\ Len(page.partInfos) = 1
              /\ page.partInfos[1].row = part.position.row + 1
              /\ page.partInfos[1].col = part.position.col + 1
              /\ page.partInfos[1].row \in 1..part.totalParts
              /\ page.partInfos[1].col \in 1..part.totalParts
              /\ page.partInfos[1].paperSize = part.paperSize
              /\ page.partInfos[1].dpi = part.dpi
              /\ page.partInfos[1].x = 30
              /\ page.partInfos[1].y = page.height - 20
              /\ Len(page.pageNumbers) = IF g.addPageNumbers THEN 1 ELSE 0
              /\ \A n \in 1..Len(page.pageNumbers) :
                   /\ RAdd(RAdd(page.pageNumbers[n].x,
                                widthOfPageNumber(page.pageNumbers[n].current,
                                                  page.pageNumbers[n].total)),
                           RInt(30)) = RInt(page.width)
                   /\ page.pageNumbers[n].y = 20

\* the second page of a landscape document with page numbers: row 2, column 1
C14_Witness ==
  \E i \in 1..Len(gens) :
    /\ gens[i].pc = "done"
    /\ gens[i].addPageNumbers
    /\ isLandscape(gens[i].pattern)
    /\ Len(gens[i].pages) = 2
    /\ gens[i].pages[2].partInfos[1].row = 2
    /\ gens[i].pages[2].partInfos[1].col = 1
    /\ Len(gens[i].pages[2].pageNumbers) = 1

-----------------------------------------------------------------------------
(* The partitioner's pattern table against DIVISION_PATTERNS, checked under Spec *)

\* C15: for every pattern id of DIVISION_PATTERNS, the landscape variants included,
\* the tiles divideImage produces for an export use that pattern's rows and cols and
\* carry that pattern's paperSize, so the paper id in each page's part-info label is
\* the paper size the page's dimensions were taken from.
C15_Claim ==
  \A i \in 1..Len(gens) :
    LET g == gens[i]
    IN (g.caller = "App" /\ g.imageParts # <<>>) =>
         /\ Len(g.imageParts) = g.pattern.rows * g.pattern.cols
         /\ \A k \in 1..Len(g.imageParts) : g.imageParts[k].paperSize = g.pattern.paperSize
         /\ \A k \in 1..Len(g.pages) :
              k <= g.index =>
                /\ g.pages[k].partInfos[1].paperSize = g.paperSize
                /\ g.pages[k].width = pageWidthOf(g.pages[k].partInfos[1].paperSize, g.pattern)
                /\ g.pages[k].height = pageHeightOf(g.pages[k].partInfos[1].paperSize, g.pattern)

\* the same statement for the exports of every pattern but A3_2x2_H
C15_OtherPatterns ==
  \A i \in 1..Len(gens) :
    LET g == gens[i]
    IN (g.caller = "App" /\ g.imageParts # <<>> /\ g.pattern # DIVISION_PATTERNS["A3_2x2_H"]) =>
         /\ Len(g.imageParts) = g.pattern.rows * g.pattern.cols
         /\ \A k \in 1..Len(g.imageParts) : g.imageParts[k].paperSize = g.pattern.paperSize

-----------------------------------------------------------------------------
(* The image behind the current file, checked under Spec *)

\* a step of the App in which the processor partitions its image: a preview after a
\* load or a select change, or the divideImage of an export
Partitions ==
  /\ originalImage' # NoImage
  /\ \/ \E f \in Files : LoadDone(f)
     \/ \E p \in TablePatternIds : PatternChange(p) /\ currentFile # NoFile
     \/ \E d \in DPI_OPTIONS : DpiChange(d) /\ currentFile # NoFile
     \/ ExportClick /\ currentFile # NoFile

\* C16: whenever a preview or an export partitions an image while currentFile is
\* non-null, the image held by the ImageProcessor is the one decoded from
\* currentFile, also while a newly added file is loading, after a replacement file
\* failed to load, and after a file was removed.
C16_Claim ==
  [][(Partitions /\ currentFile' # NoFile) => originalImage'.file = currentFile']_vars

-----------------------------------------------------------------------------
(* The source regions of the tiles, checked under SpecDivide *)

regionOf(part) == part.dataURL

Disjoint(a, b) ==
  \/ a.sourceX + a.width <= b.sourceX
  \/ b.sourceX + b.width <= a.sourceX
  \/ a.sourceY + a.height <= b.sourceY
  \/ b.sourceY + b.height <= a.sourceY

RECURSIVE areaOf(_, _)
areaOf(parts, k) ==
  IF k = 0 THEN 0
  ELSE regionOf(parts[k]).width * regionOf(parts[k]).height + areaOf(parts, k - 1)

\* the right and bottom ends of the regions, taken over all tiles
rightEnd(parts) ==
  CHOOSE m \in {regionOf(parts[k]).sourceX + regionOf(parts[k]).width : k \in 1..Len(parts)} :
    \A k \in 1..Len(parts) : regionOf(parts[k]).sourceX + regionOf(parts[k]).width <= m
bottomEnd(parts) ==
  CHOOSE m \in {regionOf(parts[k]).sourceY + regionOf(parts[k]).height : k \in 1..Len(parts)} :
    \A k \in 1..Len(parts) : regionOf(parts[k]).sourceY + regionOf(parts[k]).height <= m

\* C17: the source regions read for the tiles of a divideImage call (origin
\* (col*partWidth, row*partHeight), size partWidth x partHeight) lie inside the
\* source image and are pairwise disjoint, and the pixels no tile covers are trailing
\* ones only: at most cols-1 columns at the right edge, at most rows-1 rows at the
\* bottom edge. The regions are disjoint, lie in the rectangle from the origin to
\* (rightEnd, bottomEnd) and have that rectangle's area, so they cover it.
C17_RegionsTileTheSource ==
  (ret.op = "divideImage" /\ ret.raised = "none") =>
    LET parts == ret.value
    IN /\ parts # <<>>
       /\ \A k \in 1..Len(parts) :
            /\ regionOf(parts[k]).sourceX = parts[k].position.col * parts[k].dimensions.width
            /\ regionOf(parts[k]).sourceY = parts[k].position.row * parts[k].dimensions.height
            /\ regionOf(parts[k]).width = parts[k].dimensions.width
            /\ regionOf(parts[k]).height = parts[k].dimensions.height
            /\ regionOf(parts[k]).width > 0
            /\ regionOf(parts[k]).height > 0
            /\ regionOf(parts[k]).sourceX >= 0
            /\ regionOf(parts[k]).sourceY >= 0
            /\ regionOf(parts[k]).sourceX + regionOf(parts[k]).width <= ret.image.width
            /\ regionOf(parts[k]).sourceY + regionOf(parts[k]).height <= ret.image.height
       /\ \A j, k \in 1..Len(parts) : j # k => Disjoint(regionOf(parts[j]), regionOf(parts[k]))
       /\ areaOf(parts, Len(parts)) = rightEnd(parts) * bottomEnd(parts)
       /\ ret.image.width - rightEnd(parts) \in 0..(gridOfCall.cols - 1)
       /\ ret.image.height - bottomEnd(parts) \in 0..(gridOfCall.rows - 1)

\* a 3 x 3 source under a 2 x 2 pattern: one trailing column and one trailing row
C17_Witness ==
  /\ ret.op = "divideImage"
  /\ ret.raised = "none"
  /\ ret.image.width = 3
  /\ ret.image.height = 3
  /\ Len(ret.value) = 4
  /\ rightEnd(ret.value) = 2
  /\ bottomEnd(ret.value) = 2

====
